---- MODULE Spec2Model ----
(***************************************************************************)
(* Model of the scout-engine rules engine (src/src/engine.rs), the legal    *)
(* move enumerator (src/src/tree_builder.rs) and the lazy move iterator     *)
(* (src/src/search.rs).  A GameState is a record shaped like the Rust       *)
(* struct; transition is an operator returning the mutated state together   *)
(* with the TransitionResult, and the actions of the specification apply it *)
(* to every action value of a small input set.                              *)
(***************************************************************************)
EXTENDS Integers, Sequences, FiniteSets, TLC

VARIABLES state, result

vars == <<state, result>>

(* ---------------------------- bounds ----------------------------------- *)

\* scout_tokens passed to the constructors ranges over 0..MaxTokens
MaxTokens == 1

\* transition is not called once action_history holds MaxHistory entries
MaxHistory == 4

\* depth_limit passed to build_game_tree
DepthLimit == 6

\* smallest max_num build_deck accepts
MinCardNum == 4

\* the hands of a deal hold 1..MaxHand cards each
MaxHand == 3

\* the deals are cut from build_deck(MaxCardNum)
MaxCardNum == 5

\* hand indices passed to transition range over 0..MaxIdx
MaxIdx == 4

\* top values of the card sets and runs compared and classified are 1..MaxTop
MaxTop == 4

\* runs classified by build_card_set hold 1..MaxRun cards
MaxRun == 3

(* ------------------------- integer widths ------------------------------ *)

U8(x) == ((x % 256) + 256) % 256

AsI8(x) == IF U8(x) >= 128 THEN U8(x) - 256 ELSE U8(x)

I8(x) == AsI8(U8(x))

Min(a, b) == IF a < b THEN a ELSE b

(* ------------------------------ cards ---------------------------------- *)

Orientation == {"Larger", "Smaller"}

OCard(f, s, o) == [card |-> [first |-> f, second |-> s], orientation |-> o]

top(c) == IF c.orientation = "Smaller" THEN c.card.first ELSE c.card.second

bottom(c) == IF c.orientation = "Smaller" THEN c.card.second ELSE c.card.first

flip(c) ==
    [card |-> c.card,
     orientation |-> IF c.orientation = "Larger" THEN "Smaller" ELSE "Larger"]

FlipAll(hand) == [i \in 1..Len(hand) |-> flip(hand[i])]

(* ------------------------------ CardSet -------------------------------- *)

NoSet == [kind |-> "None", a |-> 0, b |-> 0]

Consecutive(start, end) == [kind |-> "Consecutive", a |-> start, b |-> end]

Same(number, count) == [kind |-> "Same", a |-> number, b |-> count]

num_cards(card_set) ==
    IF card_set.kind = "Consecutive"
    THEN U8(U8(card_set.b - card_set.a) + 1)
    ELSE card_set.b

Cmp(x, y) == IF x < y THEN "Less" ELSE IF x > y THEN "Greater" ELSE "Equal"

\* mutant: a Same and a Consecutive set of the same size compare as equal
partial_cmp_KindsEqual(self, other) ==
    IF num_cards(self) # num_cards(other)
    THEN Cmp(num_cards(self), num_cards(other))
    ELSE IF self.kind = other.kind THEN Cmp(self.a, other.a)
    ELSE "Equal"

\* mutant: the kind is compared before the number of cards
partial_cmp_KindFirst(self, other) ==
    IF self.kind = "Same" /\ other.kind = "Consecutive" THEN "Greater"
    ELSE IF self.kind = "Consecutive" /\ other.kind = "Same" THEN "Less"
    ELSE IF num_cards(self) # num_cards(other)
    THEN Cmp(num_cards(self), num_cards(other))
    ELSE Cmp(self.a, other.a)

partial_cmp(self, other) ==
    IF num_cards(self) # num_cards(other)
    THEN Cmp(num_cards(self), num_cards(other))
    ELSE IF self.kind = "Consecutive" /\ other.kind = "Consecutive"
         THEN Cmp(self.a, other.a)
    ELSE IF self.kind = "Same" /\ other.kind = "Same"
         THEN Cmp(self.a, other.a)
    ELSE IF self.kind = "Same" THEN "Greater"
    ELSE "Less"

\* mutant: a descending run keeps its direction
build_card_set_Unnormalized(to_play) ==
    LET vals == [i \in 1..Len(to_play) |-> top(to_play[i])]
        n == Len(vals)
    IN  IF n = 0 THEN NoSet
        ELSE IF \A i \in 1..n : vals[i] = vals[1] THEN Same(vals[1], U8(n))
        ELSE LET ascending == vals[2] > vals[1]
             IN  IF ~(\A i \in 1..(n - 1) :
                         IF ascending
                         THEN U8(vals[i] + 1) = vals[i + 1]
                         ELSE vals[i] = U8(vals[i + 1] + 1))
                 THEN NoSet
                 ELSE Consecutive(vals[1], vals[n])

build_card_set(to_play) ==
    LET vals == [i \in 1..Len(to_play) |-> top(to_play[i])]
        n == Len(vals)
    IN  IF n = 0 THEN NoSet
        ELSE IF \A i \in 1..n : vals[i] = vals[1] THEN Same(vals[1], U8(n))
        ELSE LET ascending == vals[2] > vals[1]
             IN  IF ~(\A i \in 1..(n - 1) :
                         IF ascending
                         THEN U8(vals[i] + 1) = vals[i + 1]
                         ELSE vals[i] = U8(vals[i + 1] + 1))
                 THEN NoSet
                 ELSE IF ascending
                      THEN Consecutive(vals[1], vals[n])
                      ELSE Consecutive(vals[n], vals[1])

\* mutant: against a board, a run that does not classify is reported as not
\* beating the board
legal_and_beats_board_BoardFirst(board, proposed_play) ==
    LET card_set == build_card_set(proposed_play)
        board_set == build_card_set(board)
    IN  IF board_set # NoSet
        THEN IF card_set # NoSet /\ partial_cmp(card_set, board_set) = "Greater"
             THEN "Legal"
             ELSE "DoesNotBeatBoard"
        ELSE IF card_set # NoSet THEN "Legal"
        ELSE "InvalidSet"

\* None of the Rust Option is the string "Legal"
legal_and_beats_board(board, proposed_play) ==
    LET card_set == build_card_set(proposed_play)
        board_set == build_card_set(board)
    IN  IF card_set # NoSet /\ board_set # NoSet
        THEN IF partial_cmp(card_set, board_set) = "Greater"
             THEN "Legal"
             ELSE "DoesNotBeatBoard"
        ELSE IF card_set # NoSet THEN "Legal"
        ELSE "InvalidSet"

(* ------------------------------- deck ---------------------------------- *)

AllPairs(max_num) ==
    LET row(i) == [k \in 1..(max_num - i) |-> [first |-> i, second |-> i + k]]
        rows[i \in 1..max_num] ==
            IF i = max_num THEN <<>> ELSE row(i) \o rows[i + 1]
    IN  rows[1]

build_deck(max_num) ==
    LET half == U8(max_num * (max_num - 1)) \div 2
        total_cards == U8(half - (half % 4))
        pairs == AllPairs(max_num)
        \* the loop stops when the u8 counter equals total_cards
        stop == IF total_cards = 0 THEN 256 ELSE total_cards
    IN  SubSeq(pairs, 1, Min(stop, Len(pairs)))

(* ----------------------------- actions --------------------------------- *)

FlipHand == {"DoFlip", "DoNotFlip"}

PickedCard == {"FirstCard", "LastCard"}

ChooseOrientation(do_flip) == [type |-> "ChooseOrientation", do_flip |-> do_flip]

PlayCards(start_idx, end_idx) ==
    [type |-> "PlayCards", start_idx |-> start_idx, end_idx |-> end_idx]

PlayScoutToken(picked_card, insertion_index, orientation) ==
    [type |-> "PlayScoutToken", picked_card |-> picked_card,
     insertion_index |-> insertion_index, orientation |-> orientation]

(* ------------------------- transition results -------------------------- *)

MoveAccepted == [type |-> "MoveAccepted"]

GameComplete(score_one, score_two) ==
    [type |-> "GameComplete", score_one |-> score_one, score_two |-> score_two]

IllegalMove(reason) == [type |-> "IllegalMove", reason |-> reason]

IllegalMoveReason ==
    {"GameComplete", "BadHandIndex", "MustChooseOrientation", "DoesNotBeatBoard",
     "InvalidSet", "NoScoutTokens", "ScoutWhenBoardEmpty"}

IsIllegal(r) == r.type = "IllegalMove"

(* ----------------------------- GameState ------------------------------- *)

new_from_hands(player_one_hand, player_two_hand, scout_tokens) ==
    [public_state |->
        [game_complete |-> FALSE,
         orientation_chosen |-> FALSE,
         is_player_one_turn |-> TRUE,
         board |-> <<>>,
         player_one_card_count |-> U8(Len(player_one_hand)),
         player_two_card_count |-> U8(Len(player_two_hand)),
         player_one_won_cards |-> 0,
         player_two_won_cards |-> 0,
         player_one_scout_token_count |-> scout_tokens,
         player_two_scout_token_count |-> scout_tokens,
         action_history |-> <<>>],
     player_one_hidden_state |-> [hand |-> player_one_hand],
     player_two_hidden_state |-> [hand |-> player_two_hand]]

\* mutant: each player is dealt half of the deck
new_from_seed_HalfEach(max_card_num, scout_tokens, shuffled_deck) ==
    LET deck == build_deck(max_card_num)
        cards_per_player == Len(deck) \div 2
    IN  new_from_hands(SubSeq(shuffled_deck, 1, cards_per_player),
                       SubSeq(shuffled_deck, cards_per_player + 1, cards_per_player * 2),
                       scout_tokens)

\* shuffled_deck is the outcome of shuffle_deck for the seed
new_from_seed(max_card_num, scout_tokens, shuffled_deck) ==
    LET deck == build_deck(max_card_num)
        cards_per_player == Len(deck) \div 4
    IN  [public_state |->
            [game_complete |-> FALSE,
             orientation_chosen |-> FALSE,
             is_player_one_turn |-> TRUE,
             board |-> <<>>,
             player_one_card_count |-> U8(cards_per_player),
             player_two_card_count |-> U8(cards_per_player),
             player_one_won_cards |-> 0,
             player_two_won_cards |-> 0,
             player_one_scout_token_count |-> scout_tokens,
             player_two_scout_token_count |-> scout_tokens,
             action_history |-> <<>>],
         player_one_hidden_state |->
            [hand |-> SubSeq(shuffled_deck, 1, cards_per_player)],
         player_two_hidden_state |->
            [hand |-> SubSeq(shuffled_deck, cards_per_player + 1, cards_per_player * 2)]]

Hand(s, player_one) ==
    IF player_one THEN s.player_one_hidden_state.hand ELSE s.player_two_hidden_state.hand

\* mutant: the first choice already ends the orientation phase
handle_orientation_action_FirstEnds(s, do_flip) ==
    IF s.public_state.is_player_one_turn
    THEN [state |->
            [s EXCEPT !.player_one_hidden_state.hand =
                          IF do_flip = "DoFlip" THEN FlipAll(@) ELSE @,
                      !.public_state.is_player_one_turn = FALSE,
                      !.public_state.orientation_chosen = TRUE],
          result |-> MoveAccepted]
    ELSE [state |->
            [s EXCEPT !.player_two_hidden_state.hand =
                          IF do_flip = "DoFlip" THEN FlipAll(@) ELSE @,
                      !.public_state.is_player_one_turn = TRUE,
                      !.public_state.orientation_chosen = TRUE],
          result |-> MoveAccepted]

handle_orientation_action(s, do_flip) ==
    IF s.public_state.is_player_one_turn
    THEN [state |->
            [s EXCEPT !.player_one_hidden_state.hand =
                          IF do_flip = "DoFlip" THEN FlipAll(@) ELSE @,
                      !.public_state.is_player_one_turn = FALSE],
          result |-> MoveAccepted]
    ELSE [state |->
            [s EXCEPT !.player_two_hidden_state.hand =
                          IF do_flip = "DoFlip" THEN FlipAll(@) ELSE @,
                      !.public_state.is_player_one_turn = TRUE,
                      !.public_state.orientation_chosen = TRUE],
          result |-> MoveAccepted]

\* hand.windows(window_size) for window_size in 1..=hand.len()
\* mutant: only the whole hand is tried as a play
has_legal_play_WholeHand(s, check_player_one) ==
    LET hand == Hand(s, check_player_one)
    IN  /\ Len(hand) > 0
        /\ legal_and_beats_board(s.public_state.board, hand) = "Legal"

has_legal_play(s, check_player_one) ==
    LET hand == Hand(s, check_player_one)
    IN  \E window_size \in 1..Len(hand) :
            \E i \in 1..(Len(hand) - window_size + 1) :
                legal_and_beats_board(s.public_state.board,
                                      SubSeq(hand, i, i + window_size - 1)) = "Legal"

\* mutant: the loser's remaining hand is not subtracted from the loser's score
build_game_complete_NoHandPenalty(s, player_one_scores) ==
    LET p == s.public_state
    IN  GameComplete(
            I8(AsI8(p.player_one_won_cards) + AsI8(p.player_one_scout_token_count)),
            I8(AsI8(p.player_two_won_cards) + AsI8(p.player_two_scout_token_count)))

build_game_complete(s, player_one_scores) ==
    LET p == s.public_state
    IN  IF player_one_scores
        THEN GameComplete(
                I8(AsI8(p.player_one_won_cards) + AsI8(p.player_one_scout_token_count)),
                I8(I8(AsI8(p.player_two_won_cards) - AsI8(p.player_two_card_count))
                   + AsI8(p.player_two_scout_token_count)))
        ELSE GameComplete(
                I8(I8(AsI8(p.player_one_won_cards) - AsI8(p.player_one_card_count))
                   + AsI8(p.player_one_scout_token_count)),
                I8(AsI8(p.player_two_won_cards) + AsI8(p.player_two_scout_token_count)))

\* mutant: the player who cannot move is scored as the winner
accept_or_complete_StuckWins(s) ==
    LET p == s.public_state
    IN  IF p.player_one_card_count = 0 THEN build_game_complete(s, TRUE)
        ELSE IF p.player_two_card_count = 0 THEN build_game_complete(s, FALSE)
        ELSE IF p.is_player_one_turn
                /\ p.player_one_scout_token_count = 0
                /\ ~has_legal_play(s, TRUE)
             THEN build_game_complete(s, TRUE)
        ELSE IF ~p.is_player_one_turn
                /\ p.player_two_scout_token_count = 0
                /\ ~has_legal_play(s, FALSE)
             THEN build_game_complete(s, FALSE)
        ELSE MoveAccepted

\* mutant: the game completes only when a hand is empty
accept_or_complete_HandsOnly(s) ==
    LET p == s.public_state
    IN  IF p.player_one_card_count = 0 THEN build_game_complete(s, TRUE)
        ELSE IF p.player_two_card_count = 0 THEN build_game_complete(s, FALSE)
        ELSE MoveAccepted

\* mutant: the stuck test looks at the player who is not to move
accept_or_complete_OtherPlayer(s) ==
    LET p == s.public_state
    IN  IF p.player_one_card_count = 0 THEN build_game_complete(s, TRUE)
        ELSE IF p.player_two_card_count = 0 THEN build_game_complete(s, FALSE)
        ELSE IF ~p.is_player_one_turn
                /\ p.player_one_scout_token_count = 0
                /\ ~has_legal_play(s, TRUE)
             THEN build_game_complete(s, FALSE)
        ELSE IF p.is_player_one_turn
                /\ p.player_two_scout_token_count = 0
                /\ ~has_legal_play(s, FALSE)
             THEN build_game_complete(s, TRUE)
        ELSE MoveAccepted

accept_or_complete(s) ==
    LET p == s.public_state
    IN  IF p.player_one_card_count = 0 THEN build_game_complete(s, TRUE)
        ELSE IF p.player_two_card_count = 0 THEN build_game_complete(s, FALSE)
        ELSE IF p.is_player_one_turn
                /\ p.player_one_scout_token_count = 0
                /\ ~has_legal_play(s, TRUE)
             THEN build_game_complete(s, FALSE)
        ELSE IF ~p.is_player_one_turn
                /\ p.player_two_scout_token_count = 0
                /\ ~has_legal_play(s, FALSE)
             THEN build_game_complete(s, TRUE)
        ELSE MoveAccepted

(* ------------------------------ handlers ------------------------------- *)

\* mutant: drain(start_idx..=end_idx) takes one card more out of the hand
Drain_Inclusive(hand, start_idx, end_idx) ==
    SubSeq(hand, 1, start_idx) \o SubSeq(hand, end_idx + 2, Len(hand))

Drain(hand, start_idx, end_idx) ==
    SubSeq(hand, 1, start_idx) \o SubSeq(hand, end_idx + 1, Len(hand))

\* mutant: the scouted card is pushed to the end of the hand
Insert_AtEnd(hand, index, card) == Append(hand, card)

Insert(hand, index, card) ==
    SubSeq(hand, 1, index) \o <<card>> \o SubSeq(hand, index + 1, Len(hand))

\* mutant: a rejected call still hands the turn to the other player
Rejected_PassesTurn(s, reason) ==
    [state |-> [s EXCEPT !.public_state.is_player_one_turn = ~@],
     result |-> IllegalMove(reason)]

\* an early return of IllegalMove: the handler has not written to self yet
Rejected(s, reason) == [state |-> s, result |-> IllegalMove(reason)]

\* mutant: the captured board is counted as the cards just played
ApplyPlay_WinsOwnCards(s, start_idx, end_idx) ==
    LET p == s.public_state
        proposed_play == SubSeq(Hand(s, p.is_player_one_turn), start_idx + 1, end_idx)
    IN  IF p.is_player_one_turn
        THEN [s EXCEPT
                !.public_state.player_one_card_count = U8(@ - U8(Len(proposed_play))),
                !.public_state.player_one_won_cards = U8(@ + U8(Len(proposed_play))),
                !.public_state.board = proposed_play,
                !.player_one_hidden_state.hand = Drain(@, start_idx, end_idx),
                !.public_state.is_player_one_turn = FALSE]
        ELSE [s EXCEPT
                !.public_state.player_two_card_count = U8(@ - U8(Len(proposed_play))),
                !.public_state.player_two_won_cards = U8(@ + U8(Len(proposed_play))),
                !.public_state.board = proposed_play,
                !.player_two_hidden_state.hand = Drain(@, start_idx, end_idx),
                !.public_state.is_player_one_turn = TRUE]

\* the writes of an accepted PlayCards(start_idx, end_idx)
ApplyPlay(s, start_idx, end_idx) ==
    LET p == s.public_state
        proposed_play == SubSeq(Hand(s, p.is_player_one_turn), start_idx + 1, end_idx)
    IN  IF p.is_player_one_turn
        THEN [s EXCEPT
                !.public_state.player_one_card_count = U8(@ - U8(Len(proposed_play))),
                !.public_state.player_one_won_cards = U8(@ + U8(Len(p.board))),
                !.public_state.board = proposed_play,
                !.player_one_hidden_state.hand = Drain(@, start_idx, end_idx),
                !.public_state.is_player_one_turn = FALSE]
        ELSE [s EXCEPT
                !.public_state.player_two_card_count = U8(@ - U8(Len(proposed_play))),
                !.public_state.player_two_won_cards = U8(@ + U8(Len(p.board))),
                !.public_state.board = proposed_play,
                !.player_two_hidden_state.hand = Drain(@, start_idx, end_idx),
                !.public_state.is_player_one_turn = TRUE]

handle_play_card_action(s, start_idx, end_idx) ==
    LET p == s.public_state
        hand == Hand(s, p.is_player_one_turn)
    IN  IF ~p.orientation_chosen THEN Rejected(s, "MustChooseOrientation")
        ELSE IF start_idx >= end_idx THEN Rejected(s, "BadHandIndex")
        ELSE IF end_idx > Len(hand) THEN Rejected(s, "BadHandIndex")
        ELSE LET proposed_play == SubSeq(hand, start_idx + 1, end_idx)
                 illegal_move == legal_and_beats_board(p.board, proposed_play)
                 played == ApplyPlay(s, start_idx, end_idx)
             IN  IF illegal_move # "Legal" THEN Rejected(s, illegal_move)
                 ELSE [state |-> played, result |-> accept_or_complete(played)]

\* mutant: LastCard takes the card at index 1 instead of the last one
TakeFromBoard_SecondCard(board, picked_card) ==
    IF picked_card = "FirstCard" \/ Len(board) = 1
    THEN [card |-> Head(board), board |-> Tail(board)]
    ELSE [card |-> board[2], board |-> <<Head(board)>> \o SubSeq(board, 3, Len(board))]

\* board.remove(0) / board.pop()
TakeFromBoard(board, picked_card) ==
    IF picked_card = "FirstCard"
    THEN [card |-> Head(board), board |-> Tail(board)]
    ELSE [card |-> board[Len(board)], board |-> SubSeq(board, 1, Len(board) - 1)]

\* mutant: a scout does not spend the token
ApplyScout_KeepsToken(s, picked_card, insertion_index, orientation) ==
    LET p == s.public_state
        taken == TakeFromBoard(p.board, picked_card)
        inserted == [card |-> taken.card.card, orientation |-> orientation]
    IN  IF p.is_player_one_turn
        THEN [s EXCEPT
                !.public_state.board = taken.board,
                !.player_one_hidden_state.hand = Insert(@, insertion_index, inserted),
                !.public_state.player_one_card_count = U8(@ + 1)]
        ELSE [s EXCEPT
                !.public_state.board = taken.board,
                !.player_two_hidden_state.hand = Insert(@, insertion_index, inserted),
                !.public_state.player_two_card_count = U8(@ + 1)]

\* mutant: a scout leaves the public card count as it was
ApplyScout_CountUnchanged(s, picked_card, insertion_index, orientation) ==
    LET p == s.public_state
        taken == TakeFromBoard(p.board, picked_card)
        inserted == [card |-> taken.card.card, orientation |-> orientation]
    IN  IF p.is_player_one_turn
        THEN [s EXCEPT
                !.public_state.board = taken.board,
                !.player_one_hidden_state.hand = Insert(@, insertion_index, inserted),
                !.public_state.player_one_scout_token_count = U8(@ - 1)]
        ELSE [s EXCEPT
                !.public_state.board = taken.board,
                !.player_two_hidden_state.hand = Insert(@, insertion_index, inserted),
                !.public_state.player_two_scout_token_count = U8(@ - 1)]

\* the writes of an accepted PlayScoutToken((picked_card, insertion_index, orientation))
ApplyScout(s, picked_card, insertion_index, orientation) ==
    LET p == s.public_state
        taken == TakeFromBoard(p.board, picked_card)
        inserted == [card |-> taken.card.card, orientation |-> orientation]
    IN  IF p.is_player_one_turn
        THEN [s EXCEPT
                !.public_state.board = taken.board,
                !.player_one_hidden_state.hand = Insert(@, insertion_index, inserted),
                !.public_state.player_one_scout_token_count = U8(@ - 1),
                !.public_state.player_one_card_count = U8(@ + 1)]
        ELSE [s EXCEPT
                !.public_state.board = taken.board,
                !.player_two_hidden_state.hand = Insert(@, insertion_index, inserted),
                !.public_state.player_two_scout_token_count = U8(@ - 1),
                !.public_state.player_two_card_count = U8(@ + 1)]

\* mutant: the empty board is tested before the insertion index
handle_play_scout_token_BoardFirst(s, picked_card, insertion_index, orientation) ==
    LET p == s.public_state
        hand == Hand(s, p.is_player_one_turn)
        tokens == IF p.is_player_one_turn
                  THEN p.player_one_scout_token_count
                  ELSE p.player_two_scout_token_count
    IN  IF ~p.orientation_chosen THEN Rejected(s, "MustChooseOrientation")
        ELSE IF tokens = 0 THEN Rejected(s, "NoScoutTokens")
        ELSE IF Len(p.board) = 0 THEN Rejected(s, "ScoutWhenBoardEmpty")
        ELSE IF insertion_index > Len(hand) THEN Rejected(s, "BadHandIndex")
        ELSE LET scouted == ApplyScout(s, picked_card, insertion_index, orientation)
             IN  [state |-> scouted, result |-> accept_or_complete(scouted)]

\* mutant: the token count is not checked before the scout is applied
handle_play_scout_token_NoTokenCheck(s, picked_card, insertion_index, orientation) ==
    LET p == s.public_state
        hand == Hand(s, p.is_player_one_turn)
    IN  IF ~p.orientation_chosen THEN Rejected(s, "MustChooseOrientation")
        ELSE IF insertion_index > Len(hand) THEN Rejected(s, "BadHandIndex")
        ELSE IF Len(p.board) = 0 THEN Rejected(s, "ScoutWhenBoardEmpty")
        ELSE LET scouted == ApplyScout(s, picked_card, insertion_index, orientation)
             IN  [state |-> scouted, result |-> accept_or_complete(scouted)]

handle_play_scout_token(s, picked_card, insertion_index, orientation) ==
    LET p == s.public_state
        hand == Hand(s, p.is_player_one_turn)
        tokens == IF p.is_player_one_turn
                  THEN p.player_one_scout_token_count
                  ELSE p.player_two_scout_token_count
    IN  IF ~p.orientation_chosen THEN Rejected(s, "MustChooseOrientation")
        ELSE IF tokens = 0 THEN Rejected(s, "NoScoutTokens")
        ELSE IF insertion_index > Len(hand) THEN Rejected(s, "BadHandIndex")
        ELSE IF Len(p.board) = 0 THEN Rejected(s, "ScoutWhenBoardEmpty")
        ELSE LET scouted == ApplyScout(s, picked_card, insertion_index, orientation)
             IN  [state |-> scouted, result |-> accept_or_complete(scouted)]

\* match action { .. }
Dispatch(s, a) ==
    IF a.type = "ChooseOrientation"
    THEN handle_orientation_action(s, a.do_flip)
    ELSE IF a.type = "PlayCards"
    THEN handle_play_card_action(s, a.start_idx, a.end_idx)
    ELSE handle_play_scout_token(s, a.picked_card, a.insertion_index, a.orientation)

\* mutant: a rejected call is pushed to action_history as well
Record_LogsRejected(handled, a) ==
    LET entry == <<handled.state.public_state.is_player_one_turn, a, handled.result>>
    IN  [state |->
            [handled.state EXCEPT
                !.public_state.game_complete = (handled.result.type = "GameComplete"),
                !.public_state.action_history = Append(@, entry)],
         result |-> handled.result]

\* match result { .. }: the log entry carries is_player_one_turn as the handler left it
Record(handled, a) ==
    LET entry == <<handled.state.public_state.is_player_one_turn, a, handled.result>>
    IN  IF handled.result.type = "GameComplete"
        THEN [state |->
                [handled.state EXCEPT
                    !.public_state.game_complete = TRUE,
                    !.public_state.action_history = Append(@, entry)],
              result |-> handled.result]
        ELSE IF handled.result.type = "MoveAccepted"
        THEN [state |->
                [handled.state EXCEPT
                    !.public_state.action_history = Append(@, entry)],
              result |-> handled.result]
        ELSE handled

\* mutant: the game_complete check at the top of transition is missing
transition_NoCompleteCheck(s, a) == Record(Dispatch(s, a), a)

transition(s, a) ==
    IF s.public_state.game_complete THEN Rejected(s, "GameComplete")
    ELSE Record(Dispatch(s, a), a)

(* ----------------------------- enumerators ---------------------------- *)

Range(seq) == {seq[i] : i \in 1..Len(seq)}

\* for start_idx in 0..len { for end_idx in (start_idx + 1)..=len { .. } }
SubRanges(len) ==
    LET ends(start_idx) ==
            [k \in 1..(len - start_idx) |-> PlayCards(start_idx, start_idx + k)]
        from[start_idx \in 0..len] ==
            IF start_idx = len THEN <<>> ELSE ends(start_idx) \o from[start_idx + 1]
    IN  from[0]

BeatingPlays(board, hand) ==
    LET beats(a) ==
            legal_and_beats_board(board, SubSeq(hand, a.start_idx + 1, a.end_idx)) = "Legal"
    IN  SelectSeq(SubRanges(Len(hand)), beats)

\* mutant: the insertion indices run one past hand.len()
EnumeratedScouts_PastEnd(board, hand) ==
    LET at(insertion_idx) ==
            <<PlayScoutToken("FirstCard", insertion_idx, "Larger"),
              PlayScoutToken("FirstCard", insertion_idx, "Smaller")>>
        scouts[insertion_idx \in 0..(Len(hand) + 2)] ==
            IF insertion_idx > Len(hand) + 1 THEN <<>>
            ELSE at(insertion_idx) \o scouts[insertion_idx + 1]
    IN  scouts[0]

\* for insertion_idx in 0..=hand.len() { .. }
EnumeratedScouts(board, hand) ==
    LET at(insertion_idx) ==
            <<PlayScoutToken("FirstCard", insertion_idx, "Larger"),
              PlayScoutToken("FirstCard", insertion_idx, "Smaller")>>
            \o IF Len(board) > 1
               THEN <<PlayScoutToken("LastCard", insertion_idx, "Larger"),
                      PlayScoutToken("LastCard", insertion_idx, "Smaller")>>
               ELSE <<>>
        scouts[insertion_idx \in 0..(Len(hand) + 1)] ==
            IF insertion_idx > Len(hand) THEN <<>>
            ELSE at(insertion_idx) \o scouts[insertion_idx + 1]
    IN  scouts[0]

enumerate_legal_actions(s) ==
    LET p == s.public_state
        hand == Hand(s, p.is_player_one_turn)
        has_tokens == IF p.is_player_one_turn
                      THEN p.player_one_scout_token_count > 0
                      ELSE p.player_two_scout_token_count > 0
    IN  IF p.game_complete THEN <<>>
        ELSE IF ~p.orientation_chosen
        THEN <<ChooseOrientation("DoFlip"), ChooseOrientation("DoNotFlip")>>
        ELSE BeatingPlays(p.board, hand)
             \o IF has_tokens /\ Len(p.board) # 0
                THEN EnumeratedScouts(p.board, hand)
                ELSE <<>>

\* one action per scout_position_idx in 0..hand.len(), chosen by the index modulo 4
IteratedScouts(board, hand) ==
    LET at(to_scout_idx) ==
            IF to_scout_idx % 4 = 0
            THEN <<PlayScoutToken("FirstCard", to_scout_idx, "Larger")>>
            ELSE IF to_scout_idx % 4 = 1
            THEN <<PlayScoutToken("FirstCard", to_scout_idx, "Smaller")>>
            ELSE IF to_scout_idx % 4 = 2 /\ Len(board) > 1
            THEN <<PlayScoutToken("LastCard", to_scout_idx, "Larger")>>
            ELSE <<>>
        scouts[scout_position_idx \in 0..Len(hand)] ==
            IF scout_position_idx >= Len(hand) THEN <<>>
            ELSE at(scout_position_idx) \o scouts[scout_position_idx + 1]
    IN  scouts[0]

\* mutant: the iterator forgets that a scout needs a token
MoveIter_NoTokenCheck(public_state, hidden_state) ==
    LET hand == hidden_state.hand
    IN  IF public_state.game_complete THEN <<>>
        ELSE IF ~public_state.orientation_chosen
        THEN <<ChooseOrientation("DoFlip"), ChooseOrientation("DoNotFlip")>>
        ELSE BeatingPlays(public_state.board, hand)
             \o IF Len(public_state.board) = 0 THEN <<>>
                ELSE IteratedScouts(public_state.board, hand)

\* mutant: the orientation choices are yielded in the play phase as well
MoveIter_AlwaysOrients(public_state, hidden_state) ==
    LET hand == hidden_state.hand
        num_tokens == IF public_state.is_player_one_turn
                      THEN public_state.player_one_scout_token_count
                      ELSE public_state.player_two_scout_token_count
    IN  IF public_state.game_complete THEN <<>>
        ELSE <<ChooseOrientation("DoFlip"), ChooseOrientation("DoNotFlip")>>
             \o IF ~public_state.orientation_chosen THEN <<>>
                ELSE BeatingPlays(public_state.board, hand)
                     \o IF num_tokens = 0 \/ Len(public_state.board) = 0 THEN <<>>
                        ELSE IteratedScouts(public_state.board, hand)

\* the actions search::MoveIter yields, in order, until next() returns None
MoveIter(public_state, hidden_state) ==
    LET hand == hidden_state.hand
        num_tokens == IF public_state.is_player_one_turn
                      THEN public_state.player_one_scout_token_count
                      ELSE public_state.player_two_scout_token_count
    IN  IF public_state.game_complete THEN <<>>
        ELSE IF ~public_state.orientation_chosen
        THEN <<ChooseOrientation("DoFlip"), ChooseOrientation("DoNotFlip")>>
        ELSE BeatingPlays(public_state.board, hand)
             \o IF num_tokens = 0 \/ Len(public_state.board) = 0 THEN <<>>
                ELSE IteratedScouts(public_state.board, hand)

MoverHidden(s) ==
    IF s.public_state.is_player_one_turn
    THEN s.player_one_hidden_state
    ELSE s.player_two_hidden_state

(* --------------------------- specification ----------------------------- *)

Deck == build_deck(MaxCardNum)

\* the orientation vectors shuffle_deck can assign to a run of cards
Oriented(cards) ==
    {[i \in 1..Len(cards) |-> [card |-> cards[i], orientation |-> o[i]]] :
        o \in [1..Len(cards) -> Orientation]}

\* player one holds the first k cards of the deck, player two the next k
Deals ==
    UNION {Oriented(SubSeq(Deck, 1, k)) \X Oriented(SubSeq(Deck, k + 1, 2 * k)) :
            k \in 1..Min(MaxHand, Len(Deck) \div 2)}

NoResult == [type |-> "None"]

Init ==
    \E d \in Deals, scout_tokens \in 0..MaxTokens :
        /\ state = new_from_hands(d[1], d[2], scout_tokens)
        /\ result = NoResult

Indices == 0..MaxIdx

Call(a) ==
    LET t == transition(state, a)
    IN  /\ Len(t.state.public_state.action_history) <= MaxHistory
        /\ state' = t.state
        /\ result' = t.result

CallChooseOrientation == \E do_flip \in FlipHand : Call(ChooseOrientation(do_flip))

CallPlayCards == \E start_idx \in Indices, end_idx \in Indices : Call(PlayCards(start_idx, end_idx))

CallPlayScoutToken ==
    \E picked_card \in PickedCard, insertion_index \in Indices, orientation \in Orientation :
        Call(PlayScoutToken(picked_card, insertion_index, orientation))

Next == CallChooseOrientation \/ CallPlayCards \/ CallPlayScoutToken

Spec == Init /\ [][Next]_vars

(* new_from_seed(MinCardNum, scout_tokens, seed): shuffle_deck is driven by  *)
(* an external generator, so its outcome for a seed is any permutation of   *)
(* the deck with any orientation vector.                                    *)
DeckPermutations(deck) ==
    {q \in [1..Len(deck) -> Range(deck)] : Range(q) = Range(deck)}

ShuffledDecks(deck) == UNION {Oriented(q) : q \in DeckPermutations(deck)}

InitSeed ==
    \E shuffled_deck \in ShuffledDecks(build_deck(MinCardNum)), scout_tokens \in 0..MaxTokens :
        /\ state = new_from_seed(MinCardNum, scout_tokens, shuffled_deck)
        /\ result = NoResult

SpecSeed == InitSeed /\ [][Next]_vars

(* walk_games: one behaviour per branch of the recursion; every branch works *)
(* on its own clone of the state, so the branches share nothing.            *)
WalkGames ==
    \E a \in Range(MoveIter(state.public_state, MoverHidden(state))) :
        LET t == transition(state, a)
        IN  /\ state' = t.state
            /\ result' = t.result

SpecWalk == Init /\ [][WalkGames]_vars

(* build_game_tree(initial_state, DepthLimit): one behaviour per path from   *)
(* the root; the depth of a node is the length of its action_history.       *)
BuildGameTree ==
    \E a \in Range(enumerate_legal_actions(state)) :
        LET t == transition(state, a)
        IN  /\ Len(state.public_state.action_history) < DepthLimit
            /\ state' = t.state
            /\ result' = t.result

SpecTree == Init /\ [][BuildGameTree]_vars

(* ------------------------------ helpers -------------------------------- *)

History == state.public_state.action_history

LastEntry == History[Len(History)]

MoverTokens(s) ==
    IF s.public_state.is_player_one_turn
    THEN s.public_state.player_one_scout_token_count
    ELSE s.public_state.player_two_scout_token_count

Accepted(r) == r.type \in {"MoveAccepted", "GameComplete"}

(* ------------------------------- claims -------------------------------- *)

\* C1: every action enumerate_legal_actions returns for a state of the game
\* tree is accepted by transition (MoveAccepted or GameComplete), so the
\* transition build_game_tree made to reach the state was never IllegalMove.
C1_EnumerateSound ==
    /\ ~IsIllegal(result)
    /\ \A a \in Range(enumerate_legal_actions(state)) :
            Accepted(transition(state, a).result)

\* a node reached by an enumerated play of two cards, whose enumeration holds
\* plays and scouts of the last board card
C1_Witness ==
    /\ Len(History) > 0
    /\ LastEntry[2].type = "PlayCards"
    /\ Len(state.public_state.board) = 2
    /\ \E a \in Range(enumerate_legal_actions(state)) : a.type = "PlayCards"
    /\ \E a \in Range(enumerate_legal_actions(state)) :
            a.type = "PlayScoutToken" /\ a.picked_card = "LastCard"

\* C2: every action MoveIter yields for the player to move in a state visited
\* by walk_games is accepted by transition, so walk_games never panics.
C2_MoveIterSound ==
    /\ ~IsIllegal(result)
    /\ \A a \in Range(MoveIter(state.public_state, MoverHidden(state))) :
            Accepted(transition(state, a).result)

\* walk_games applied a scout MoveIter yielded and the iterator yields scouts again
C2_Witness ==
    /\ Len(History) > 0
    /\ LastEntry[2].type = "PlayScoutToken"
    /\ LastEntry[2].picked_card = "LastCard"
    /\ result.type = "MoveAccepted"
    /\ \E a \in Range(MoveIter(state.public_state, MoverHidden(state))) :
            a.type = "PlayCards"

AllActions ==
    {ChooseOrientation(do_flip) : do_flip \in FlipHand}
    \cup {PlayCards(start_idx, end_idx) : start_idx \in Indices, end_idx \in Indices}
    \cup {PlayScoutToken(picked_card, insertion_index, orientation) :
            picked_card \in PickedCard, insertion_index \in Indices,
            orientation \in Orientation}

\* C3: in a state that is not complete an action is enumerated by
\* enumerate_legal_actions exactly when transition accepts it.
C3_ExactAsStated ==
    ~state.public_state.game_complete =>
        LET enumerated == Range(enumerate_legal_actions(state))
        IN  \A a \in AllActions :
                (a \in enumerated) <=> Accepted(transition(state, a).result)

\* C4: a call of transition that returns IllegalMove leaves the whole
\* GameState (public state, both hands, action_history) as it was.
C4_RejectedIsNoOp == [][IsIllegal(result') => state' = state]_vars

\* a play was rejected after its run classified and was compared with the board
C4_Witness ==
    /\ result = IllegalMove("DoesNotBeatBoard")
    /\ Len(state.public_state.board) > 0

\* C5: once game_complete is true every call returns IllegalMove(GameComplete)
\* and changes no field; the last log entry stays the GameComplete entry.
C5_TerminalRejection ==
    /\ [](state.public_state.game_complete =>
            /\ Len(History) > 0
            /\ LastEntry[3].type = "GameComplete")
    /\ [][state.public_state.game_complete =>
            /\ result' = IllegalMove("GameComplete")
            /\ state' = state]_vars

\* a call was made on a complete game
C5_Witness ==
    /\ state.public_state.game_complete
    /\ result = IllegalMove("GameComplete")

Total(s) ==
    Len(s.player_one_hidden_state.hand) + Len(s.player_two_hidden_state.hand)
    + Len(s.public_state.board)
    + s.public_state.player_one_won_cards + s.public_state.player_two_won_cards

\* C6: no call of transition changes hand_one.len() + hand_two.len() +
\* board.len() + player_one_won_cards + player_two_won_cards.
C6_Conservation == [][Total(state') = Total(state)]_vars

\* a board of one card was captured by a play of two cards
C6_Witness ==
    /\ Len(History) > 0
    /\ LastEntry[2].type = "PlayCards"
    /\ Len(state.public_state.board) = 2
    /\ state.public_state.player_one_won_cards + state.public_state.player_two_won_cards = 1

\* C7 as stated: for a game built by new_from_seed the five counts add up to
\* the length of the deck.
C7_WholeDeckDealt ==
    ~state.public_state.game_complete => Total(state) = Len(build_deck(MinCardNum))

\* C7 amended: new_from_seed deals deck.len() / 4 cards to each player, so the
\* five counts add up to half the deck at all times.
C7_HalfDeckDealt == Total(state) = 2 * (Len(build_deck(MinCardNum)) \div 4)

\* a game from new_from_seed that is past the orientation phase and not complete
C7_Witness ==
    /\ state.public_state.orientation_chosen
    /\ ~state.public_state.game_complete
    /\ Len(state.player_one_hidden_state.hand) = Len(build_deck(MinCardNum)) \div 4

\* C8: the board is empty or classifies as a CardSet.
C8_BoardValid ==
    \/ Len(state.public_state.board) = 0
    \/ build_card_set(state.public_state.board) # NoSet

\* a scout took the last card off a board of three cards
C8_Witness ==
    /\ Len(History) > 0
    /\ LastEntry[2].type = "PlayScoutToken"
    /\ LastEntry[2].picked_card = "LastCard"
    /\ Len(state.public_state.board) = 2

Tokens(s, player_one) ==
    IF player_one
    THEN s.public_state.player_one_scout_token_count
    ELSE s.public_state.player_two_scout_token_count

ScoutActions ==
    {PlayScoutToken(picked_card, insertion_index, orientation) :
        picked_card \in PickedCard, insertion_index \in Indices, orientation \in Orientation}

\* C9: a call of transition leaves both token counts as they are, except that
\* an accepted PlayScoutToken takes exactly one token from the player who made
\* it, who held at least one; a scout by a player without tokens is rejected,
\* with NoScoutTokens once the orientation is chosen and the game is running.
C9_TokensOnlyDecrease ==
    /\ [](MoverTokens(state) = 0 =>
            \A a \in ScoutActions :
                /\ IsIllegal(transition(state, a).result)
                /\ (state.public_state.orientation_chosen
                        /\ ~state.public_state.game_complete)
                    => transition(state, a).result = IllegalMove("NoScoutTokens"))
    /\ [][LET mover == state.public_state.is_player_one_turn
              logged == Len(state'.public_state.action_history) > Len(History)
              scouted == logged /\ state'.public_state.action_history[Len(History) + 1][2].type
                                        = "PlayScoutToken"
          IN  IF scouted
              THEN /\ Accepted(result')
                   /\ Tokens(state, mover) >= 1
                   /\ Tokens(state', mover) = Tokens(state, mover) - 1
                   /\ Tokens(state', ~mover) = Tokens(state, ~mover)
              ELSE /\ Tokens(state', TRUE) = Tokens(state, TRUE)
                   /\ Tokens(state', FALSE) = Tokens(state, FALSE)]_vars

\* a player spent the last token and then tried to scout again
C9_Witness ==
    /\ result = IllegalMove("NoScoutTokens")
    /\ Len(History) > 0
    /\ LastEntry[2].type = "PlayScoutToken"

\* GameComplete(score_one, score_two) with the given player as the winner
ScoredFor(s, winner_is_one) ==
    LET p == s.public_state
    IN  IF winner_is_one
        THEN GameComplete(p.player_one_won_cards + p.player_one_scout_token_count,
                          p.player_two_won_cards - p.player_two_card_count
                            + p.player_two_scout_token_count)
        ELSE GameComplete(p.player_one_won_cards - p.player_one_card_count
                            + p.player_one_scout_token_count,
                          p.player_two_won_cards + p.player_two_scout_token_count)

\* no sub-range of the player's hand classifies and outranks the board
NoLegalPlay(s, player_one) ==
    \A start_idx \in 0..Len(Hand(s, player_one)) :
        \A end_idx \in (start_idx + 1)..Len(Hand(s, player_one)) :
            legal_and_beats_board(s.public_state.board,
                                  SubSeq(Hand(s, player_one), start_idx + 1, end_idx))
                # "Legal"

\* C10 as stated: whenever transition returns GameComplete the winner is the
\* player who made the call.
C10_MoverWins ==
    [][result'.type = "GameComplete" =>
            result' = ScoredFor(state', state.public_state.is_player_one_turn)]_vars

\* C10 amended: when a PlayCards completes the game its mover wins, because the
\* mover's hand is empty or the opponent has no token and no legal play; when
\* a PlayScoutToken completes the game the scouter, who is still to move, has
\* no token and no legal play, and the scouter's opponent wins.
C10_StuckPlayerLoses ==
    [][result'.type = "GameComplete" =>
            LET mover == state.public_state.is_player_one_turn
                a == state'.public_state.action_history[Len(History) + 1][2]
            IN  /\ a.type \in {"PlayCards", "PlayScoutToken"}
                /\ a.type = "PlayCards" =>
                    /\ result' = ScoredFor(state', mover)
                    /\ \/ Len(Hand(state', mover)) = 0
                       \/ /\ Tokens(state', ~mover) = 0
                          /\ NoLegalPlay(state', ~mover)
                /\ a.type = "PlayScoutToken" =>
                    /\ result' = ScoredFor(state', ~mover)
                    /\ Len(Hand(state', mover)) > 0
                    /\ Len(Hand(state', ~mover)) > 0
                    /\ Tokens(state', mover) = 0
                    /\ NoLegalPlay(state', mover)]_vars

\* a scout completed the game
C10_Witness ==
    /\ result.type = "GameComplete"
    /\ LastEntry[2].type = "PlayScoutToken"

Won(s, player_one) ==
    IF player_one
    THEN s.public_state.player_one_won_cards
    ELSE s.public_state.player_two_won_cards

Score(r, player_one) == IF player_one THEN r.score_one ELSE r.score_two

\* C11: when transition returns GameComplete(score_one, score_two), one player
\* (the winner) is scored won cards + tokens and the other (the loser) won
\* cards - cards left in hand + tokens, as signed integers of the state the
\* final action left.
C11_Scoring ==
    result.type = "GameComplete" =>
        \E winner \in BOOLEAN :
            /\ Score(result, winner) = Won(state, winner) + Tokens(state, winner)
            /\ Score(result, ~winner) =
                    Won(state, ~winner) - Len(Hand(state, ~winner))
                        + Tokens(state, ~winner)

\* a game ended with a negative score for the loser and captured cards and a
\* token in the winner's score
C11_Witness ==
    /\ result.type = "GameComplete"
    /\ \E loser \in BOOLEAN :
            /\ Score(result, loser) < 0
            /\ Tokens(state, ~loser) > 0
            /\ Won(state, ~loser) > 0

\* the entry a call of transition appended to action_history
Appended == state'.public_state.action_history[Len(History) + 1]

Logged == Len(state'.public_state.action_history) = Len(History) + 1

\* C12: every entry appended to action_history carries as its first component
\* the flag of the player who performed the logged action, that is the value
\* of is_player_one_turn when transition was called.
C12_ActorFlag ==
    [][Logged => Appended[1] = state.public_state.is_player_one_turn]_vars

\* C13: action_history is append-only and grows by exactly one entry, holding
\* the result returned, on every call that returns MoveAccepted or GameComplete
\* and by none on a rejected call; an entry with a GameComplete result can only
\* be the last one, and there is one exactly when game_complete is true.
C13_LogShape ==
    /\ [](/\ \A i \in 1..Len(History) :
                /\ Accepted(History[i][3])
                /\ History[i][3].type = "GameComplete" => i = Len(History)
          /\ state.public_state.game_complete
                <=> (Len(History) > 0 /\ LastEntry[3].type = "GameComplete"))
    /\ [][IF Accepted(result')
          THEN /\ Logged
               /\ SubSeq(state'.public_state.action_history, 1, Len(History)) = History
               /\ Appended[3] = result'
          ELSE state'.public_state.action_history = History]_vars

\* a call ended the game and was logged as at least the fourth entry, after a
\* scout
C13_Witness ==
    /\ result.type = "GameComplete"
    /\ Len(History) >= 4
    /\ \E i \in 1..Len(History) : History[i][2].type = "PlayScoutToken"

PlayActions ==
    {PlayCards(start_idx, end_idx) : start_idx \in Indices, end_idx \in Indices}

\* the first reason of the precedence list that applies to PlayCards(start, end)
PlayRejection(s, start_idx, end_idx) ==
    LET p == s.public_state
        hand == Hand(s, p.is_player_one_turn)
        run == SubSeq(hand, start_idx + 1, end_idx)
    IN  IF p.game_complete THEN "GameComplete"
        ELSE IF ~p.orientation_chosen THEN "MustChooseOrientation"
        ELSE IF start_idx >= end_idx \/ end_idx > Len(hand) THEN "BadHandIndex"
        ELSE IF build_card_set(run) = NoSet THEN "InvalidSet"
        ELSE IF /\ Len(p.board) > 0
                /\ partial_cmp(build_card_set(run), build_card_set(p.board)) # "Greater"
             THEN "DoesNotBeatBoard"
        ELSE "Legal"

\* C14: transition rejects PlayCards(start, end) with the first reason that
\* applies among GameComplete, MustChooseOrientation, BadHandIndex (start >=
\* end or end > hand.len()), InvalidSet (the run does not classify) and
\* DoesNotBeatBoard (the board is not empty and the run does not outrank it),
\* and accepts it when none applies.
C14_PlayPrecedence ==
    \A a \in PlayActions :
        LET r == transition(state, a).result
            reason == PlayRejection(state, a.start_idx, a.end_idx)
        IN  IF reason = "Legal" THEN Accepted(r) ELSE r = IllegalMove(reason)

\* a run of the mover's hand that does not classify was played against a board
\* of two cards and rejected with InvalidSet
C14_Witness ==
    /\ result = IllegalMove("InvalidSet")
    /\ Len(state.public_state.board) = 2
    /\ \E a \in PlayActions :
            /\ a.end_idx = a.start_idx + 2
            /\ PlayRejection(state, a.start_idx, a.end_idx) = "InvalidSet"

Playing(s) == s.public_state.orientation_chosen /\ ~s.public_state.game_complete

\* C15 as stated: with orientation chosen and the game not complete, a scout
\* by a player without tokens returns NoScoutTokens; with a token and an empty
\* board it returns ScoutWhenBoardEmpty for every insertion index; with a token
\* and cards on the board it returns BadHandIndex exactly when the insertion
\* index exceeds hand.len().
C15_EmptyBoardFirst ==
    Playing(state) =>
        \A a \in ScoutActions :
            LET r == transition(state, a).result
                hand == Hand(state, state.public_state.is_player_one_turn)
            IN  IF MoverTokens(state) = 0 THEN r = IllegalMove("NoScoutTokens")
                ELSE IF Len(state.public_state.board) = 0
                     THEN r = IllegalMove("ScoutWhenBoardEmpty")
                ELSE (r = IllegalMove("BadHandIndex")) <=> (a.insertion_index > Len(hand))

\* C15 amended: with orientation chosen and the game not complete, a scout by
\* a player without tokens returns NoScoutTokens; with a token it returns
\* BadHandIndex exactly when the insertion index exceeds hand.len(), whether or
\* not the board is empty, ScoutWhenBoardEmpty when the index is within the
\* hand and the board is empty, and is accepted otherwise.
C15_IndexFirst ==
    Playing(state) =>
        \A a \in ScoutActions :
            LET r == transition(state, a).result
                hand == Hand(state, state.public_state.is_player_one_turn)
            IN  IF MoverTokens(state) = 0 THEN r = IllegalMove("NoScoutTokens")
                ELSE IF a.insertion_index > Len(hand) THEN r = IllegalMove("BadHandIndex")
                ELSE IF Len(state.public_state.board) = 0
                     THEN r = IllegalMove("ScoutWhenBoardEmpty")
                ELSE Accepted(r)

\* a scout on an empty board was rejected with ScoutWhenBoardEmpty in a state
\* where a scout past the end of the hand is rejected with BadHandIndex
C15_Witness ==
    /\ result = IllegalMove("ScoutWhenBoardEmpty")
    /\ Len(state.public_state.board) = 0
    /\ \E a \in ScoutActions :
            /\ a.insertion_index > Len(Hand(state, state.public_state.is_player_one_turn))
            /\ transition(state, a).result = IllegalMove("BadHandIndex")

CardCount(s, player_one) ==
    IF player_one
    THEN s.public_state.player_one_card_count
    ELSE s.public_state.player_two_card_count

\* seq without its element at position i (1-based)
Without(seq, i) == SubSeq(seq, 1, i - 1) \o SubSeq(seq, i + 1, Len(seq))

\* C16: an accepted PlayScoutToken((end, index, orientation)) by player P takes
\* the first or the last card, as chosen, off the board and leaves the other
\* board cards as they were; the card, with the supplied orientation, sits at
\* position index of P's hand and the other hand cards keep their order; P has
\* one token less and one card more; the turn, both won counts and the
\* opponent's hand, card count and tokens do not change.
C16_ScoutEffect ==
    [][(Logged /\ Appended[2].type = "PlayScoutToken") =>
            LET a == Appended[2]
                P == state.public_state.is_player_one_turn
                board == state.public_state.board
                at == IF a.picked_card = "FirstCard" THEN 1 ELSE Len(board)
                hand == Hand(state', P)
            IN  /\ Len(board) >= 1
                /\ state'.public_state.board = Without(board, at)
                /\ Len(hand) = Len(Hand(state, P)) + 1
                /\ hand[a.insertion_index + 1].card = board[at].card
                /\ hand[a.insertion_index + 1].orientation = a.orientation
                /\ Without(hand, a.insertion_index + 1) = Hand(state, P)
                /\ Tokens(state', P) = Tokens(state, P) - 1
                /\ CardCount(state', P) = CardCount(state, P) + 1
                /\ state'.public_state.is_player_one_turn = P
                /\ Won(state', P) = Won(state, P)
                /\ Won(state', ~P) = Won(state, ~P)
                /\ Hand(state', ~P) = Hand(state, ~P)
                /\ CardCount(state', ~P) = CardCount(state, ~P)
                /\ Tokens(state', ~P) = Tokens(state, ~P)]_vars

\* the first card of a board of two cards was scouted into the middle of the
\* scouter's hand
C16_Witness ==
    /\ Len(History) > 0
    /\ LastEntry[2].type = "PlayScoutToken"
    /\ LastEntry[2].picked_card = "FirstCard"
    /\ LastEntry[2].insertion_index = 1
    /\ Len(state.public_state.board) = 1
    /\ Len(Hand(state, state.public_state.is_player_one_turn)) >= 3

\* C17: an accepted PlayCards(start, end) by player P makes hand[start..end) of
\* P's old hand the board and leaves P the rest of the hand in order; P's card
\* count drops by end - start and P's won count rises by the length of the old
\* board; the turn passes to the opponent; the opponent's hand, card count and
\* won count and both token counts do not change.
C17_PlayEffect ==
    [][(Logged /\ Appended[2].type = "PlayCards") =>
            LET a == Appended[2]
                P == state.public_state.is_player_one_turn
                old == Hand(state, P)
                n == a.end_idx - a.start_idx
            IN  /\ n >= 1
                /\ a.end_idx <= Len(old)
                /\ state'.public_state.board = [i \in 1..n |-> old[a.start_idx + i]]
                /\ Len(Hand(state', P)) = Len(old) - n
                /\ \A i \in 1..Len(Hand(state', P)) :
                        Hand(state', P)[i] = IF i <= a.start_idx THEN old[i] ELSE old[i + n]
                /\ CardCount(state', P) = CardCount(state, P) - n
                /\ Won(state', P) = Won(state, P) + Len(state.public_state.board)
                /\ state'.public_state.is_player_one_turn = ~P
                /\ Hand(state', ~P) = Hand(state, ~P)
                /\ CardCount(state', ~P) = CardCount(state, ~P)
                /\ Won(state', ~P) = Won(state, ~P)
                /\ Tokens(state', P) = Tokens(state, P)
                /\ Tokens(state', ~P) = Tokens(state, ~P)]_vars

\* the middle card of a hand of three was played onto a board of one card
C17_Witness ==
    /\ Len(History) > 0
    /\ LastEntry[2] = PlayCards(1, 2)
    /\ Len(Hand(state, ~state.public_state.is_player_one_turn)) = 2
    /\ Won(state, ~state.public_state.is_player_one_turn) = 1

\* every card of the hand with its orientation inverted and its values kept
Flipped(hand) ==
    [i \in 1..Len(hand) |->
        [card |-> hand[i].card,
         orientation |-> CHOOSE o \in Orientation : o # hand[i].orientation]]

\* the fields a ChooseOrientation must leave alone
OrientationFrame(s) ==
    <<s.public_state.board, s.public_state.game_complete,
      CardCount(s, TRUE), CardCount(s, FALSE), Tokens(s, TRUE), Tokens(s, FALSE),
      Won(s, TRUE), Won(s, FALSE)>>

\* C18: while orientation_chosen is false, PlayCards and PlayScoutToken are
\* rejected with MustChooseOrientation; the first ChooseOrientation is player
\* one's, flips every card of player one's hand iff DoFlip, leaves
\* orientation_chosen false and gives the turn to player two; the second is
\* player two's, flips every card of player two's hand iff DoFlip, sets
\* orientation_chosen and returns the turn to player one; neither changes the
\* other player's hand, the board, the card counts, tokens or won counts.
C18_OrientationPhase ==
    /\ [](~state.public_state.orientation_chosen =>
            /\ Len(History) <= 1
            /\ state.public_state.is_player_one_turn <=> (Len(History) = 0)
            /\ \A a \in PlayActions \cup ScoutActions :
                    transition(state, a) = [state |-> state,
                                            result |-> IllegalMove("MustChooseOrientation")])
    /\ [][(~state.public_state.orientation_chosen /\ Logged) =>
            LET a == Appended[2]
                P == state.public_state.is_player_one_turn
            IN  /\ a.type = "ChooseOrientation"
                /\ result' = MoveAccepted
                /\ Hand(state', P) = IF a.do_flip = "DoFlip"
                                     THEN Flipped(Hand(state, P))
                                     ELSE Hand(state, P)
                /\ Hand(state', ~P) = Hand(state, ~P)
                /\ state'.public_state.is_player_one_turn = ~P
                /\ state'.public_state.orientation_chosen = ~P
                /\ OrientationFrame(state') = OrientationFrame(state)]_vars

\* player one flipped, player two kept, and the play phase has begun with
\* player one to move
C18_Witness ==
    /\ Len(History) = 2
    /\ History[1][2] = ChooseOrientation("DoFlip")
    /\ History[2][2] = ChooseOrientation("DoNotFlip")
    /\ state.public_state.orientation_chosen
    /\ state.public_state.is_player_one_turn
    /\ result = MoveAccepted

\* the actions either enumerator produces for the player to move
Enumerated(s) ==
    Range(enumerate_legal_actions(s)) \cup Range(MoveIter(s.public_state, MoverHidden(s)))

\* orientation choices still to make, cards in hand, and tokens counted twice
Rank(s) ==
    (IF s.public_state.orientation_chosen THEN 0
     ELSE IF s.public_state.is_player_one_turn THEN 2 ELSE 1)
    + Len(Hand(s, TRUE)) + Len(Hand(s, FALSE))
    + 2 * (Tokens(s, TRUE) + Tokens(s, FALSE))

\* C19: the exhaustive search terminates in complete games: in a state that
\* is not complete both enumerators produce an action, and every action they
\* produce is accepted and lowers a rank that is never negative, because an
\* accepted PlayCards leaves its mover a shorter hand and an accepted
\* PlayScoutToken leaves its mover fewer tokens and no more cards and tokens
\* together than before.
C19_Terminates ==
    /\ Rank(state) >= 0
    /\ ~state.public_state.game_complete =>
            /\ enumerate_legal_actions(state) # <<>>
            /\ MoveIter(state.public_state, MoverHidden(state)) # <<>>
            /\ \A a \in Enumerated(state) :
                    LET t == transition(state, a)
                        P == state.public_state.is_player_one_turn
                    IN  /\ Accepted(t.result)
                        /\ Rank(t.state) < Rank(state)
                        /\ a.type = "PlayCards" =>
                                Len(Hand(t.state, P)) < Len(Hand(state, P))
                        /\ a.type = "PlayScoutToken" =>
                                /\ Tokens(t.state, P) < Tokens(state, P)
                                /\ Len(Hand(t.state, P)) + Tokens(t.state, P)
                                        <= Len(Hand(state, P)) + Tokens(state, P)

\* a branch that held two scouts ended after at least eight actions
C19_Witness ==
    /\ state.public_state.game_complete
    /\ Len(History) >= 8
    /\ \E i, j \in 1..Len(History) :
            /\ i < j
            /\ History[i][2].type = "PlayScoutToken"
            /\ History[j][2].type = "PlayScoutToken"

\* the sum of both hand sizes a game started with: no call changes Total
InitialCards(s) == Total(s)

\* the sum of both token counts a game started with: the tokens left and one
\* for every logged scout
InitialTokens(s) ==
    Tokens(s, TRUE) + Tokens(s, FALSE)
    + Cardinality({i \in 1..Len(s.public_state.action_history) :
                        s.public_state.action_history[i][2].type = "PlayScoutToken"})

\* C20 as stated: the number of accepted actions on a path of the search never
\* exceeds hand_one + hand_two + tokens_one + tokens_two of the initial state.
C20_DepthBound == Len(History) <= InitialCards(state) + InitialTokens(state)

\* C20 amended: the number of accepted actions on a path of the search never
\* exceeds 1 + hand_one + hand_two + 2 * (tokens_one + tokens_two) of the
\* initial state with non-empty hands: the two orientation choices are
\* actions, and a scout is an action and adds a card to play.
C20_DepthBoundAmended ==
    Len(History) <= 1 + InitialCards(state) + 2 * InitialTokens(state)

\* a path as long as the amended bound allows, with both tokens spent
C20_Witness ==
    /\ InitialTokens(state) = 2
    /\ Tokens(state, TRUE) + Tokens(state, FALSE) = 0
    /\ Len(History) = 1 + InitialCards(state) + 2 * InitialTokens(state)

(* ------------------- comparing classified card sets -------------------- *)

\* the values Some(..) of build_card_set: Same(v, n) with n >= 1 cards and
\* Consecutive(lo, hi) with lo < hi
ValidSets ==
    {Same(number, count) : number \in 1..MaxTop, count \in 1..MaxRun}
    \cup UNION {{Consecutive(start, end) : end \in (start + 1)..MaxTop} :
                    start \in 1..MaxTop}

InitCompare ==
    \E a \in ValidSets, b \in ValidSets, c \in ValidSets :
        /\ state = <<a, b, c>>
        /\ result = NoResult

\* every pair of the three sets is compared with partial_cmp
Compare ==
    /\ result = NoResult
    /\ result' = [type |-> "Ordering",
                  cmp |-> [i \in 1..3 |-> [j \in 1..3 |-> partial_cmp(state[i], state[j])]]]
    /\ UNCHANGED state

SpecCompare == InitCompare /\ [][Compare]_vars

\* C21: on the sets build_card_set can return the comparison is a strict total
\* order: of a < b, a == b and a > b exactly one holds, a and b compare as
\* equal only when they are the same set, a < b is the same as b > a, and <
\* is transitive.
C21_StrictTotalOrder ==
    result.type = "Ordering" =>
        /\ \A i \in 1..3, j \in 1..3 :
                /\ result.cmp[i][j] \in {"Less", "Equal", "Greater"}
                /\ (result.cmp[i][j] = "Equal") <=> (state[i] = state[j])
                /\ (result.cmp[i][j] = "Less") <=> (result.cmp[j][i] = "Greater")
        /\ (result.cmp[1][2] = "Less" /\ result.cmp[2][3] = "Less")
                => result.cmp[1][3] = "Less"

\* a chain a < b < c through a Consecutive and two Same sets of two cards each
C21_Witness ==
    /\ result.type = "Ordering"
    /\ state[1].kind = "Consecutive"
    /\ state[2] = Same(1, 2)
    /\ state[3] = Same(2, 2)
    /\ result.cmp[1][2] = "Less"
    /\ result.cmp[2][3] = "Less"

\* the number of cards of a set, in plain integers
Count(card_set) ==
    IF card_set.kind = "Consecutive" THEN card_set.b - card_set.a + 1 ELSE card_set.b

\* C22: a set with more cards outranks a set with fewer cards whatever the
\* kinds; among sets of the same number of cards Consecutive sets rank by
\* their low value, Same sets by their number, and a Same set outranks a
\* Consecutive set.
C22_Comparator ==
    result.type = "Ordering" =>
        \A i \in 1..3, j \in 1..3 :
            LET x == state[i]
                y == state[j]
            IN  result.cmp[i][j] =
                    IF Count(x) > Count(y) THEN "Greater"
                    ELSE IF Count(x) < Count(y) THEN "Less"
                    ELSE IF x.kind = y.kind
                    THEN (IF x.a > y.a THEN "Greater"
                          ELSE IF x.a < y.a THEN "Less" ELSE "Equal")
                    ELSE IF x.kind = "Same" THEN "Greater"
                    ELSE "Less"

\* a Consecutive set of three cards outranked a Same set of two, and a Same
\* set of two outranked a Consecutive set of two with a higher low value
C22_Witness ==
    /\ result.type = "Ordering"
    /\ state[1] = Consecutive(1, 3)
    /\ state[2] = Same(4, 2)
    /\ state[3] = Consecutive(3, 4)
    /\ result.cmp[1][2] = "Greater"
    /\ result.cmp[2][3] = "Greater"

(* ------------------------ build_deck, step by step --------------------- *)

\* new_from_seed asserts max_card_num < CardNumLimit
CardNumLimit == 40

Panic == [type |-> "Panic"]

Returned(deck) == [type |-> "Deck", deck |-> deck]

InitDeck ==
    \E max_num \in MinCardNum..(CardNumLimit - 1) :
        /\ state = [pc |-> "total_cards", max_num |-> max_num, total_cards |-> 0,
                    deck |-> <<>>, count |-> 0, i |-> 1, j |-> 2]
        /\ result = NoResult

\* let total_cards = max_num * (max_num - 1) / 2 - (max_num * (max_num - 1) / 2 % 4):
\* the u8 product wraps without overflow checks and panics with them
TotalCards ==
    /\ state.pc = "total_cards"
    /\ \/ /\ state' = [state EXCEPT
                          !.pc = "push",
                          !.total_cards =
                              LET half == U8(state.max_num * (state.max_num - 1)) \div 2
                              IN  U8(half - (half % 4))]
          /\ result' = result
       \/ /\ state.max_num * (state.max_num - 1) > 255
          /\ state' = [state EXCEPT !.pc = "panicked"]
          /\ result' = Panic

\* one iteration of the inner loop: push Card { first: i, second: j }
PushCard ==
    /\ state.pc = "push"
    /\ LET deck == Append(state.deck, [first |-> state.i, second |-> state.j])
           count == U8(state.count + 1)
           last_j == state.j = state.max_num
           last_i == state.i + 1 = state.max_num
       IN  IF count = state.total_cards \/ (last_j /\ last_i)
           THEN /\ state' = [state EXCEPT !.pc = "returned", !.deck = deck,
                                          !.count = count]
                /\ result' = Returned(deck)
           ELSE /\ state' = [state EXCEPT
                                !.deck = deck,
                                !.count = count,
                                !.i = IF last_j THEN @ + 1 ELSE @,
                                !.j = IF last_j THEN state.i + 2 ELSE @ + 1]
                /\ result' = result

NextDeck == TotalCards \/ PushCard

SpecDeck == InitDeck /\ [][NextDeck]_vars

\* C23: for every max_num new_from_seed accepts, build_deck returns a deck
\* whose length is max_num * (max_num - 1) / 2 rounded down to a multiple of 4,
\* computed in 8-bit unsigned arithmetic, and which is the row-major prefix of
\* that length of all pairs (i, j) with 1 <= i < j <= max_num, without repeats.
C23_DeckLength ==
    state.pc \in {"returned", "panicked"} =>
        LET half == ((state.max_num * (state.max_num - 1)) % 256) \div 2
            length == half - (half % 4)
        IN  /\ result.type = "Deck"
            /\ Len(result.deck) = length
            /\ result.deck = SubSeq(AllPairs(state.max_num), 1, length)
            /\ \A m \in 1..length, n \in 1..length :
                    result.deck[m] = result.deck[n] => m = n

(* ------------------------------- HandIter ------------------------------ *)

MaxNones == 2

RECURSIVE Flatten(_)
Flatten(seqs) == IF seqs = <<>> THEN <<>> ELSE Head(seqs) \o Flatten(Tail(seqs))

\* itertools combinations(r): the r-element subsequences, in lexicographic
\* order of their index vectors
RECURSIVE Combinations(_, _)
Combinations(cards, r) ==
    IF r = 0 THEN << <<>> >>
    ELSE IF Len(cards) < r THEN <<>>
    ELSE LET with_head == Combinations(Tail(cards), r - 1)
         IN  [n \in 1..Len(with_head) |-> <<Head(cards)>> \o with_head[n]]
             \o Combinations(Tail(cards), r)

\* itertools permutations(len): every ordering, in lexicographic order of the
\* index vectors
RECURSIVE permutations(_)
permutations(cards) ==
    IF cards = <<>> THEN << <<>> >>
    ELSE Flatten([i \in 1..Len(cards) |->
            LET rest == permutations(SubSeq(cards, 1, i - 1)
                                     \o SubSeq(cards, i + 1, Len(cards)))
            IN  [n \in 1..Len(rest) |-> <<cards[i]>> \o rest[n]]])

\* orientation_bits & 0x1 after c - 1 right shifts
Bit(orientation_bits, c) == (orientation_bits \div (2 ^ (c - 1))) % 2

uu_cards_to_hands(uu_cards) ==
    Flatten([p \in 1..Len(permutations(uu_cards)) |->
        LET perm == permutations(uu_cards)[p]
        IN  [b \in 1..(2 ^ Len(perm)) |->
                [c \in 1..Len(perm) |->
                    [card |-> perm[c],
                     orientation |-> IF Bit(b - 1, c) = 1 THEN "Larger"
                                                          ELSE "Smaller"]]]])

Filter(cards, excluded) == SelectSeq(cards, LAMBDA c : c \notin excluded)

build_oriented_hands_SharedCards(unoriented_unordered_cards) ==
    LET cards_per_player == Len(unoriented_unordered_cards) \div 2
        player_one_hands ==
            LET uu == Combinations(unoriented_unordered_cards, cards_per_player)
            IN  Flatten([n \in 1..Len(uu) |-> uu_cards_to_hands(uu[n])])
    IN  Flatten([h \in 1..Len(player_one_hands) |->
            LET player_one_hand == player_one_hands[h]
                player_two_hands ==
                    uu_cards_to_hands(SubSeq(unoriented_unordered_cards, 1, cards_per_player))
            IN  [t \in 1..Len(player_two_hands) |->
                    <<player_one_hand, player_two_hands[t]>>]])

build_oriented_hands(unoriented_unordered_cards) ==
    LET cards_per_player == Len(unoriented_unordered_cards) \div 2
        player_one_hands ==
            LET uu == Combinations(unoriented_unordered_cards, cards_per_player)
            IN  Flatten([n \in 1..Len(uu) |-> uu_cards_to_hands(uu[n])])
    IN  Flatten([h \in 1..Len(player_one_hands) |->
            LET player_one_hand == player_one_hands[h]
                player_one_uu_cards == {player_one_hand[c].card : c \in 1..Len(player_one_hand)}
                player_two_uu_cards == Filter(unoriented_unordered_cards, player_one_uu_cards)
                player_two_hands == uu_cards_to_hands(player_two_uu_cards)
            IN  [t \in 1..Len(player_two_hands) |->
                    <<player_one_hand, player_two_hands[t]>>]])

\* the combinations card_iter walks through, for a deck
CardIter(deck) == Combinations(deck, (Len(deck) \div 4) * 2)

NewHandIter_SkipsFirst(deck) ==
    LET cards == Head(CardIter(deck))
    IN  [deck |-> deck, card_iter |-> Tail(CardIter(deck)), cards |-> cards,
         hands |-> build_oriented_hands(cards), hand_idx |-> 1,
         yielded |-> 0, nones |-> 0]

\* HandIter::new: card_iter has handed out its first combination, cards;
\* card_iter is the sequence of combinations still to come
NewHandIter(deck) ==
    LET cards == Head(CardIter(deck))
    IN  [deck |-> deck, card_iter |-> Tail(CardIter(deck)), cards |-> cards,
         hands |-> build_oriented_hands(cards), hand_idx |-> 0,
         yielded |-> 0, nones |-> 0]

InitHands ==
    \E max_num \in MinCardNum..MaxCardNum :
        /\ state = NewHandIter(build_deck(max_num))
        /\ result = NoResult

Some(deal) == [type |-> "Some", deal |-> deal]

None == [type |-> "None", deal |-> <<>>]

\* HandIter::next; yielded and nones count the calls that returned Some and
\* None, cards is the combination the current hands were built from
HandIterNext ==
    /\ state.nones < MaxNones
    /\ IF state.hand_idx = Len(state.hands)
       THEN IF state.card_iter = <<>>
            THEN /\ state' = [state EXCEPT !.nones = @ + 1]
                 /\ result' = None
            ELSE LET cards == Head(state.card_iter)
                     hands == build_oriented_hands(cards)
                 IN  /\ state' = [state EXCEPT !.card_iter = Tail(@),
                                               !.cards = cards,
                                               !.hands = hands,
                                               !.hand_idx = 1,
                                               !.yielded = @ + 1]
                     /\ result' = Some(hands[1])
       ELSE /\ state' = [state EXCEPT !.hand_idx = @ + 1, !.yielded = @ + 1]
            /\ result' = Some(state.hands[state.hand_idx + 1])

SpecHands == InitHands /\ [][HandIterNext]_vars

RECURSIVE Factorial(_)
Factorial(n) == IF n = 0 THEN 1 ELSE n * Factorial(n - 1)

\* C24: for a deck of n distinct cards, n a multiple of 4 and k = n / 4,
\* HandIter yields exactly n! / (n - 2k)! * 2^(2k) deals before it returns
\* None, and every later call returns None as well.
C24_DealCount ==
    LET n == Len(state.deck)
        k == n \div 4
        deals == (Factorial(n) \div Factorial(n - 2 * k)) * 2 ^ (2 * k)
    IN  /\ state.yielded <= deals
        /\ state.nones = 0 /\ state.yielded > 0 => result.type = "Some"
        /\ state.nones > 0 => result = None /\ state.yielded = deals

\* the four-card deck is exhausted after 48 deals and next() has returned
\* None twice
C24_Witness ==
    /\ Len(state.deck) = 4
    /\ state.yielded = 48
    /\ state.nones = 2
    /\ result = None

DealtCards(deal) ==
    {deal[1][c].card : c \in 1..Len(deal[1])} \cup {deal[2][c].card : c \in 1..Len(deal[2])}

\* C25: every deal HandIter yields has two hands of n / 4 cards, no card twice
\* within or across the hands, every card from the deck, and is emitted once:
\* it differs from the earlier deals of its combination, and its cards are
\* those of its combination, which no combination still to come consists of.
C25_DealValid ==
    result.type = "Some" =>
        LET deal == result.deal
            n == Len(state.deck)
        IN  /\ Len(deal[1]) = n \div 4
            /\ Len(deal[2]) = n \div 4
            /\ Cardinality(DealtCards(deal)) = 2 * (n \div 4)
            /\ DealtCards(deal) \subseteq Range(state.deck)
            /\ DealtCards(deal) = Range(state.cards)
            /\ \A j \in 1..(state.hand_idx - 1) : state.hands[j] /= deal
            /\ \A c \in 1..Len(state.card_iter) :
                    Range(state.card_iter[c]) /= DealtCards(deal)

\* the last deal of the second combination of the four-card deck
C25_Witness ==
    /\ result.type = "Some"
    /\ Len(state.deck) = 4
    /\ Len(state.card_iter) = 4
    /\ state.hand_idx = Len(state.hands)
    /\ state.yielded = 16

(* ------------------------------ walk_games ----------------------------- *)

\* walker collects the states the callback is invoked with, in order;
\* panicked records the panic on an IllegalMove, which ends the walk
NewWalker == [walked |-> <<>>, panicked |-> FALSE]

RECURSIVE walk_games(_, _)
RECURSIVE WalkMoves(_, _, _, _)

\* the while-let loop of walk_games from the i-th action of move_iter
WalkMoves(s, move_iter, i, walker) ==
    IF walker.panicked \/ i > Len(move_iter) THEN walker
    ELSE LET t == transition(s, move_iter[i])
         IN  IF t.result.type = "IllegalMove"
             THEN [walker EXCEPT !.panicked = TRUE]
             ELSE WalkMoves(s, move_iter, i + 1, walk_games(t.state, walker))

walk_games_SkipsLast(s, walker) ==
    IF s.public_state.game_complete
    THEN [walker EXCEPT !.walked = Append(@, s)]
    ELSE LET move_iter == MoveIter(s.public_state, MoverHidden(s))
         IN  WalkMoves(s, SubSeq(move_iter, 1, Len(move_iter) - 1), 1, walker)

\* mutant: the callback is invoked on every state the walk passes through
walk_games_EveryNode(s, walker) ==
    IF s.public_state.game_complete
    THEN [walker EXCEPT !.walked = Append(@, s)]
    ELSE WalkMoves(s, MoveIter(s.public_state, MoverHidden(s)), 1,
                   [walker EXCEPT !.walked = Append(@, s)])

walk_games(s, walker) ==
    IF s.public_state.game_complete
    THEN [walker EXCEPT !.walked = Append(@, s)]
    ELSE WalkMoves(s, MoveIter(s.public_state, MoverHidden(s)), 1, walker)

Walked(walker) == [type |-> "Walked", walked |-> walker.walked, panicked |-> walker.panicked]

\* walk_games(GameState::new_from_seed(MinCardNum, scout_tokens, seed), walker)
Walk ==
    /\ result = NoResult
    /\ result' = Walked(walk_games(state, NewWalker))
    /\ UNCHANGED state

SpecSmallest == InitSeed /\ [][Walk]_vars

\* C27: in a game dealt by new_from_seed(4, 0, seed), one card each and no
\* scout tokens, walk_games invokes the callback exactly 4 times, once per
\* combination of the two orientation choices, each followed by player one
\* playing the single card, which completes the game.
C27_SmallestGame ==
    /\ result.type = "Walked"
    /\ state.public_state.player_one_scout_token_count = 0
    /\ state.public_state.player_two_scout_token_count = 0
    /\ Len(state.player_one_hidden_state.hand) = 1
    /\ Len(state.player_two_hidden_state.hand) = 1
    => /\ ~result.panicked
       /\ Len(result.walked) = 4
       /\ \A n \in 1..4 :
            LET history == result.walked[n].public_state.action_history
            IN  /\ result.walked[n].public_state.game_complete
                /\ Len(history) = 3
                /\ history[1][2].type = "ChooseOrientation"
                /\ history[2][2].type = "ChooseOrientation"
                /\ history[3][2] = PlayCards(0, 1)
       /\ {<<result.walked[n].public_state.action_history[1][2].do_flip,
             result.walked[n].public_state.action_history[2][2].do_flip>> :
                n \in 1..4} = {"DoFlip", "DoNotFlip"} \X {"DoFlip", "DoNotFlip"}

\* the walk of a one-card, no-token game has returned its four final states
C27_Witness ==
    /\ result.type = "Walked"
    /\ state.public_state.player_one_scout_token_count = 0
    /\ Len(state.player_one_hidden_state.hand) = 1
    /\ Len(result.walked) = 4
    /\ result.walked[4].public_state.game_complete

(* --------------------------- build_card_set ---------------------------- *)

\* the oriented cards of a game played with numbers up to MaxCardNum
OrientedCards ==
    {[card |-> card, orientation |-> o] :
        card \in Range(AllPairs(MaxCardNum)), o \in Orientation}

\* the runs a hand or a board can hold: up to MaxRun cards, none of them twice
Runs ==
    UNION {{run \in [1..n -> OrientedCards] :
                \A i \in 1..n, j \in 1..n : run[i].card = run[j].card => i = j} :
            n \in 1..MaxRun}

Reverse(seq) == [i \in 1..Len(seq) |-> seq[Len(seq) + 1 - i]]

InitClassify ==
    \E to_play \in Runs :
        /\ state = to_play
        /\ result = NoResult

\* build_card_set on the run and on the run read from the other end
Classify ==
    /\ result = NoResult
    /\ result' = [type |-> "CardSet",
                  card_set |-> build_card_set(state),
                  reversed |-> build_card_set(Reverse(state))]
    /\ UNCHANGED state

SpecClassify == InitClassify /\ [][Classify]_vars

\* C28: a non-empty run of top values classifies as Same(v, len) iff all its
\* values equal v, as Consecutive(min, max) iff they are not all equal and
\* every adjacent pair steps by +1 or every adjacent pair steps by -1, and as
\* no set otherwise; a run and its reverse classify identically.
C28_Classification ==
    result.type = "CardSet" =>
        LET n == Len(state)
            vals == [i \in 1..n |-> top(state[i])]
            all_equal == \A i \in 1..n : vals[i] = vals[1]
            ascending == \A i \in 1..(n - 1) : vals[i + 1] = vals[i] + 1
            descending == \A i \in 1..(n - 1) : vals[i + 1] = vals[i] - 1
            lowest == CHOOSE v \in Range(vals) : \A w \in Range(vals) : v <= w
            highest == CHOOSE v \in Range(vals) : \A w \in Range(vals) : v >= w
        IN  /\ result.card_set.kind = "Same" <=> all_equal
            /\ all_equal => result.card_set = Same(vals[1], n)
            /\ result.card_set.kind = "Consecutive"
                    <=> ~all_equal /\ (ascending \/ descending)
            /\ result.card_set.kind = "Consecutive"
                    => result.card_set = Consecutive(lowest, highest)
            /\ result.card_set = NoSet
                    <=> ~all_equal /\ ~ascending /\ ~descending
            /\ result.reversed = result.card_set

\* a descending run of three cards has been classified
C28_Witness ==
    /\ result.type = "CardSet"
    /\ Len(state) = 3
    /\ top(state[1]) = top(state[2]) + 1
    /\ top(state[2]) = top(state[3]) + 1
    /\ result.card_set = Consecutive(top(state[3]), top(state[1]))

YieldsPlay(actions) == \E n \in 1..Len(actions) : actions[n].type = "PlayCards"

PlayAgreement ==
    LET can_play == has_legal_play(state, state.public_state.is_player_one_turn)
    IN  /\ can_play <=> YieldsPlay(enumerate_legal_actions(state))
        /\ can_play <=> YieldsPlay(MoveIter(state.public_state, MoverHidden(state)))

\* C29 as stated: in every reachable state with orientation chosen,
\* has_legal_play for the player to move is true iff enumerate_legal_actions,
\* and likewise MoveIter, yields at least one PlayCards action.
C29_PlayAgreement ==
    state.public_state.orientation_chosen => PlayAgreement

\* C29: in every reachable state with orientation chosen and the game not
\* complete, has_legal_play for the player to move is true iff
\* enumerate_legal_actions, and likewise MoveIter, yields at least one
\* PlayCards action.
C29_PlayAgreementAmended ==
    state.public_state.orientation_chosen /\ ~state.public_state.game_complete
        => PlayAgreement

\* the game goes on with a mover who holds cards, none of which beats the board
C29_Witness ==
    /\ state.public_state.orientation_chosen
    /\ ~state.public_state.game_complete
    /\ Len(MoverHidden(state).hand) > 1
    /\ ~has_legal_play(state, state.public_state.is_player_one_turn)
    /\ ~YieldsPlay(MoveIter(state.public_state, MoverHidden(state)))

\* C30 as stated: in every reachable state MoveIter yields exactly the same
\* set of actions as enumerate_legal_actions; when the mover holds a token and
\* the board is not empty, that is for every insertion index 0..=hand.len()
\* both orientations of take-first and, with more than one card on the board,
\* both orientations of take-last.
C30_EnumeratorsAgree ==
    LET iterated == Range(MoveIter(state.public_state, MoverHidden(state)))
        hand == MoverHidden(state).hand
        board == state.public_state.board
    IN  /\ iterated = Range(enumerate_legal_actions(state))
        /\ ( /\ ~state.public_state.game_complete
             /\ state.public_state.orientation_chosen
             /\ MoverTokens(state) > 0
             /\ Len(board) > 0 )
           => \A insertion_idx \in 0..Len(hand), orientation \in Orientation :
                /\ PlayScoutToken("FirstCard", insertion_idx, orientation) \in iterated
                /\ Len(board) > 1 =>
                     PlayScoutToken("LastCard", insertion_idx, orientation) \in iterated

(* ------------------- walk_games from any state of a walk ---------------- *)

\* one step of the walk: an action of move_iter applied to the state
WalkStep ==
    /\ result.type # "Walked"
    /\ WalkGames

\* walk_games called on the state the walk has reached
WalkFromHere ==
    /\ result.type # "Walked"
    /\ result' = Walked(walk_games(state, NewWalker))
    /\ UNCHANGED state

NextLeaves == WalkStep \/ WalkFromHere

\* the walk is taken from deals of at most MaxWalkHand cards per player
MaxWalkHand == 2

InitLeaves ==
    \E d \in {deal \in Deals : Len(deal[1]) <= MaxWalkHand}, scout_tokens \in 0..MaxTokens :
        /\ state = new_from_hands(d[1], d[2], scout_tokens)
        /\ result = NoResult

SpecLeaves == InitLeaves /\ [][NextLeaves]_vars

\* the maximal sequences of MoveIter-enumerated actions starting from s
RECURSIVE MaximalSequences(_)
MaximalSequences(s) ==
    LET move_iter == MoveIter(s.public_state, MoverHidden(s))
    IN  IF move_iter = <<>> THEN {<<>>}
        ELSE UNION {{<<move_iter[n]>> \o rest :
                        rest \in MaximalSequences(transition(s, move_iter[n]).state)} :
                    n \in 1..Len(move_iter)}

\* the actions logged in w after those already logged in s
ActionsSince(s, w) ==
    LET before == Len(s.public_state.action_history)
        log == w.public_state.action_history
    IN  [n \in 1..(Len(log) - before) |-> log[before + n][2]]

\* C31: walk_games invokes the callback only with complete states, exactly
\* once for each maximal sequence of MoveIter-enumerated actions from the
\* given state, and exactly once, with the state itself, if that state is
\* already complete.
C31_OneCallPerLeaf ==
    result.type = "Walked" =>
        /\ ~result.panicked
        /\ \A n \in 1..Len(result.walked) : result.walked[n].public_state.game_complete
        /\ {ActionsSince(state, result.walked[n]) : n \in 1..Len(result.walked)}
                = MaximalSequences(state)
        /\ Len(result.walked) = Cardinality(MaximalSequences(state))
        /\ state.public_state.game_complete => result.walked = <<state>>

\* a walk from a running game with scout tokens has called back for more
\* than the four orientation branches
C31_Witness ==
    /\ result.type = "Walked"
    /\ ~state.public_state.game_complete
    /\ state.public_state.action_history = <<>>
    /\ Len(result.walked) > 4

(* ---------------------------- build_game_tree -------------------------- *)

MaxTreeDepth == 4

\* GameNode; panicked records the failed assertion on an IllegalMove
GameNode(s, children, panicked) ==
    [state |-> s, children |-> children, panicked |-> panicked]

RECURSIVE build_game_tree(_, _)

build_game_tree_StopsEarly(initial_state, depth_limit) ==
    IF depth_limit <= 1 THEN GameNode(initial_state, <<>>, FALSE)
    ELSE IF initial_state.public_state.game_complete
    THEN GameNode(initial_state, <<>>, FALSE)
    ELSE LET legal_actions == Range(enumerate_legal_actions(initial_state))
             accepted == {a \in legal_actions : Accepted(transition(initial_state, a).result)}
             children == [a \in accepted |->
                            build_game_tree(transition(initial_state, a).state,
                                            depth_limit - 1)]
         IN  GameNode(initial_state, children,
                      \/ accepted # legal_actions
                      \/ \E a \in accepted : children[a].panicked)

build_game_tree(initial_state, depth_limit) ==
    IF depth_limit = 0 THEN GameNode(initial_state, <<>>, FALSE)
    ELSE IF initial_state.public_state.game_complete
    THEN GameNode(initial_state, <<>>, FALSE)
    ELSE LET legal_actions == Range(enumerate_legal_actions(initial_state))
             accepted == {a \in legal_actions : Accepted(transition(initial_state, a).result)}
             children == [a \in accepted |->
                            build_game_tree(transition(initial_state, a).state,
                                            depth_limit - 1)]
         IN  GameNode(initial_state, children,
                      \/ accepted # legal_actions
                      \/ \E a \in accepted : children[a].panicked)

RECURSIVE count_nodes(_)
count_nodes(node) ==
    LET keys == DOMAIN node.children
        sum[done \in SUBSET keys] ==
            IF done = {} THEN 0
            ELSE LET a == CHOOSE k \in done : TRUE
                 IN  count_nodes(node.children[a]) + sum[done \ {a}]
    IN  1 + sum[keys]

InitBuild ==
    \E d \in {deal \in Deals : Len(deal[1]) <= MaxWalkHand},
       scout_tokens \in 0..MaxTokens, depth_limit \in 0..MaxTreeDepth :
        /\ state = [initial_state |-> new_from_hands(d[1], d[2], scout_tokens),
                    depth_limit |-> depth_limit]
        /\ result = NoResult

\* build_game_tree(state, depth_limit)
Build ==
    /\ result = NoResult
    /\ result' = [type |-> "GameNode",
                  root |-> build_game_tree(state.initial_state, state.depth_limit)]
    /\ UNCHANGED state

SpecBuild == InitBuild /\ [][Build]_vars

\* node is the root of a tree of the claimed shape with depth levels below it
RECURSIVE TreeShape(_, _)
TreeShape(node, depth) ==
    /\ DOMAIN node.children =
            IF depth = 0 \/ node.state.public_state.game_complete THEN {}
            ELSE Range(enumerate_legal_actions(node.state))
    /\ \A a \in DOMAIN node.children :
            /\ node.children[a].state = transition(node.state, a).state
            /\ TreeShape(node.children[a], depth - 1)

\* C32: in build_game_tree(s, d) every node above depth d whose state is not
\* complete has children keyed by exactly enumerate_legal_actions of its
\* state, each child's state is the key action applied to the parent's state,
\* which stays as it was, and nodes at depth d or with a complete state have
\* no children.
C32_TreeStructure ==
    result.type = "GameNode" =>
        /\ ~result.root.panicked
        /\ result.root.state = state.initial_state
        /\ TreeShape(result.root, state.depth_limit)

\* a tree of four levels below a root with a scout token and two cards each
C32_Witness ==
    /\ result.type = "GameNode"
    /\ state.depth_limit = 4
    /\ Len(state.initial_state.player_one_hidden_state.hand) = 2
    /\ state.initial_state.public_state.player_one_scout_token_count = 1
    /\ count_nodes(result.root) > 15

\* the hand size and the depth limits of test_count_nodes_simple and
\* test_count_nodes_deeper
CountedHand == 3

CountedDepths == {2, 3}

InitCount ==
    \E d \in {deal \in Deals : Len(deal[1]) = CountedHand},
       scout_tokens \in 0..MaxTokens, depth_limit \in CountedDepths :
        /\ state = [initial_state |-> new_from_hands(d[1], d[2], scout_tokens),
                    depth_limit |-> depth_limit]
        /\ result = NoResult

\* count_nodes(&build_game_tree(initial_state, depth_limit))
CountNodes ==
    /\ result = NoResult
    /\ result' = [type |-> "Count",
                  count |-> count_nodes(build_game_tree(state.initial_state,
                                                        state.depth_limit))]
    /\ UNCHANGED state

SpecCount == InitCount /\ [][CountNodes]_vars

\* C33: for a fresh game with three cards per player and no scout tokens the
\* tree built with depth limit 3 has 1 + 2 + 4 = 7 nodes, as many as the tree
\* built with depth limit 2.
C33_SevenNodes ==
    /\ result.type = "Count"
    /\ state.initial_state.public_state.player_one_scout_token_count = 0
    /\ state.initial_state.public_state.player_two_scout_token_count = 0
    => result.count = 7

(* --------------------------- test_game_end ----------------------------- *)

\* GameState::new_from_seed(6, 3, 3): three cards and three tokens each
ScenarioTokens == 3

\* the game of test_game_end ends with its sixth transition
ScenarioLength == 6

InitScenario ==
    \E d \in {deal \in Deals : Len(deal[1]) = CountedHand} :
        /\ state = new_from_hands(d[1], d[2], ScenarioTokens)
        /\ result = NoResult

\* state.transition(&action) for an action the engine accepts
ScenarioStep ==
    /\ Len(state.public_state.action_history) < ScenarioLength
    /\ \E a \in Range(enumerate_legal_actions(state)) :
        LET t == transition(state, a)
        IN  /\ state' = t.state
            /\ result' = t.result

SpecScenario == InitScenario /\ [][ScenarioStep]_vars

\* hero has 1 won card and 2 tokens, villain 1 won card, 3 tokens and
\* hand_cards cards in hand
Scenario(hero, hand_cards) ==
    /\ result.type = "GameComplete"
    /\ Won(state, hero) = 1
    /\ Tokens(state, hero) = 2
    /\ Won(state, ~hero) = 1
    /\ Tokens(state, ~hero) = 3
    /\ Len(Hand(state, ~hero)) = hand_cards

\* C34 as stated: when the game completes with the hero holding 1 won card
\* and 2 tokens and the villain 1 won card, 0 hand cards and 3 tokens, the
\* completion score is (3, 3).
C34_ScoreScenario ==
    \A hero \in BOOLEAN :
        Scenario(hero, 0) => result = GameComplete(3, 3)

\* C34: when the game completes with the hero holding 1 won card and 2 tokens
\* and the villain 1 won card, 1 hand card and 3 tokens, the completion score
\* is (3, 3).
C34_ScoreScenarioAmended ==
    \A hero \in BOOLEAN :
        Scenario(hero, 1) => result = GameComplete(3, 3)

\* the end of test_game_end: player one has scouted once and emptied the hand
C34_Witness ==
    /\ Scenario(TRUE, 1)
    /\ Len(Hand(state, TRUE)) = 0
    /\ LastEntry[2].type = "PlayCards"

(* ----------------------------- TrivialPlayer --------------------------- *)

\* the first sub-range players::trivial_player::MoveIter yields, as a sequence
\* of at most one action: both loops run while the index is below hand.len(),
\* end_idx starts at start_idx + 1
TrivialMoveIterNext(hand, board) ==
    LET tried == {r \in (0..(Len(hand) - 1)) \X (1..(Len(hand) - 1)) :
                    /\ r[1] < r[2]
                    /\ legal_and_beats_board(board, SubSeq(hand, r[1] + 1, r[2])) = "Legal"}
        first == CHOOSE r \in tried :
                    \A q \in tried : r[1] < q[1] \/ (r[1] = q[1] /\ r[2] <= q[2])
    IN  IF tried = {} THEN <<>> ELSE <<PlayCards(first[1], first[2])>>

choose_action(public_state, hidden_state) ==
    IF ~public_state.orientation_chosen THEN ChooseOrientation("DoNotFlip")
    ELSE LET card_play == TrivialMoveIterNext(hidden_state.hand, public_state.board)
         IN  IF card_play # <<>> THEN card_play[1]
             ELSE PlayScoutToken("FirstCard", 0, "Larger")

\* one round of the loop of test_choose_action, which stops at an IllegalMove
SelfPlay ==
    /\ ~state.public_state.game_complete
    /\ result.type # "IllegalMove"
    /\ LET t == transition(state, choose_action(state.public_state, MoverHidden(state)))
       IN  /\ state' = t.state
           /\ result' = t.result

SpecTrivial == Init /\ [][SelfPlay]_vars

\* C35: from a fresh game, with TrivialPlayer.choose_action picking every move
\* for the player to move, transition never returns IllegalMove (so that the
\* game can go on until game_complete), also where the only legal play ends
\* at the last hand card, the mover has no tokens or the board is empty.
C35_NeverIllegal == result.type # "IllegalMove"

\* C36: the game passes through ChoosingOrientation, Playing and Complete
\* with exactly two orientation sub-turns: the first two accepted actions are
\* the ChooseOrientation actions and, once orientation_chosen is true,
\* transition accepts no further ChooseOrientation.
C36_PhaseOrder ==
    /\ \A n \in 1..Len(History) : History[n][2].type = "ChooseOrientation" <=> n <= 2
    /\ state.public_state.orientation_chosen <=> Len(History) >= 2
    /\ state.public_state.game_complete => state.public_state.orientation_chosen

\* the player who placed the current board: the mover of the last accepted
\* PlayCards action, whose log entry carries the turn flag it left behind
BoardPlacer ==
    LET plays == {n \in 1..Len(History) : History[n][2].type = "PlayCards"}
        last == CHOOSE n \in plays : \A m \in plays : m <= n
    IN  ~History[last][1]

\* C37: in every action sequence transition accepts, whenever the board is
\* not empty in the Playing phase the player to move is not the player who
\* placed the board, so that the cards a PlayCards action counts as won were
\* placed by the opponent.
C37_CaptureOwnership ==
    /\ state.public_state.orientation_chosen
    /\ ~state.public_state.game_complete
    /\ state.public_state.board # <<>>
    => state.public_state.is_player_one_turn # BoardPlacer

\* C38: every state reached through enumerated actions from a deal with
\* non-empty hands that is not complete has at least one action yielded by
\* enumerate_legal_actions and at least one yielded by MoveIter for the player
\* to move.
C38_NoStuckState ==
    ~state.public_state.game_complete =>
        /\ enumerate_legal_actions(state) # <<>>
        /\ MoveIter(state.public_state, MoverHidden(state)) # <<>>

\* the game goes on although the mover has no play that beats the board: the
\* only actions enumerated are scouts
C38_Witness ==
    /\ ~state.public_state.game_complete
    /\ state.public_state.orientation_chosen
    /\ ~YieldsPlay(enumerate_legal_actions(state))
    /\ enumerate_legal_actions(state) # <<>>
    /\ MoveIter(state.public_state, MoverHidden(state)) # <<>>
    /\ MoverTokens(state) = 1

\* some sub-range of the mover's hand classifies and outranks the board
MoverCanPlay ==
    LET hand == MoverHidden(state).hand
    IN  \E i \in 1..Len(hand), j \in 1..Len(hand) :
            /\ i <= j
            /\ build_card_set(SubSeq(hand, i, j)) # NoSet
            /\ \/ state.public_state.board = <<>>
               \/ partial_cmp(build_card_set(SubSeq(hand, i, j)),
                              build_card_set(state.public_state.board)) = "Greater"

\* C39: in every state reached through PlayCards and PlayScoutToken actions
\* after the orientation phase, game_complete is true iff some player's hand
\* is empty or the player to move has no scout token and no hand sub-range
\* that classifies and outranks the board; after a scout the player to move
\* is the scouter.
C39_Completion ==
    state.public_state.orientation_chosen =>
        ( state.public_state.game_complete <=>
            \/ state.player_one_hidden_state.hand = <<>>
            \/ state.player_two_hidden_state.hand = <<>>
            \/ MoverTokens(state) = 0 /\ ~MoverCanPlay )

\* a game completed by a scout: the scouter spent the last token and holds
\* cards, none of which beats what is left on the board
C39_Witness ==
    /\ state.public_state.game_complete
    /\ state.player_one_hidden_state.hand # <<>>
    /\ state.player_two_hidden_state.hand # <<>>
    /\ LastEntry[2].type = "PlayScoutToken"
    /\ MoverTokens(state) = 0
    /\ ~MoverCanPlay

\* C40: in every reachable state each public card count equals the length of
\* that player's hand, and no count leaves its 8-bit range: a count is never
\* above the number of cards dealt, which transition conserves, so that a deal
\* of up to 30 cards per player keeps both counts within 0..60.
C40_CountsMirrorHands ==
    /\ state.public_state.player_one_card_count = Len(state.player_one_hidden_state.hand)
    /\ state.public_state.player_two_card_count = Len(state.player_two_hidden_state.hand)
    /\ Len(state.player_one_hidden_state.hand) <= Total(state)
    /\ Len(state.player_two_hidden_state.hand) <= Total(state)
    /\ Total(state) <= 2 * MaxHand

\* player two has scouted a fourth card into a hand of three
C40_Witness ==
    /\ History # <<>>
    /\ LastEntry[2].type = "PlayScoutToken"
    /\ state.public_state.player_two_card_count = 4
    /\ Len(state.player_two_hidden_state.hand) = 4
    /\ state.public_state.player_one_card_count = Len(state.player_one_hidden_state.hand)

====
